---- MODULE Spec2Model ----
(***************************************************************************)
(* cg_req: the REST-method abstraction with its builder and serializer    *)
(* (src/src/rest.rs), the URI compiler (src/src/hyper.rs), and the         *)
(* retry/backoff executor `request` with `validate_response` inside the    *)
(* polling loop of main (src/src/main.rs).                                 *)
(*                                                                         *)
(* Strings are sequences of one-character strings, so that substitution,   *)
(* percent-encoding and integer parsing are computed, not assumed.         *)
(* Option<T> is a record [some |-> BOOLEAN, val |-> T].                    *)
(***************************************************************************)
EXTENDS Integers, Sequences, FiniteSets, TLC

VARIABLES
    pc,                          \* position of the running operation
    rest_api_method,             \* the RestApiMethod (descriptor) in use
    compiled,                    \* last result of compile_uri
    set_call,                    \* last key-addressed setter call and its result
    was_set,                     \* history: <<setter, key>> pairs set with success
    response,                    \* the response of the attempt in flight
    validated,                   \* last result of validate_response / transform_response
    sleep_between_requests_ms,   \* the shared backoff cell (main.rs:63)
    start_ms,                    \* history: the backoff cell when the call started
    attempt_ms,                  \* history: the backoff cell when the attempt was sent
    answers,                     \* history: what the transport answered to each attempt
    result,                      \* what `request` returned
    transport_calls,             \* history: hyper.request calls made by this call
    slept,                       \* history: ban sleeps of this call, [count, last]
    calls,                       \* history: number of `request` calls started
    sent,                        \* the last outbound request
    ban_events,                  \* history: known-duration bans since process start
    overflow_checks,             \* build: integer overflow panics (debug) or wraps
    log_info,                    \* environment: the info log level is enabled
    builder,                     \* a RestApiMethodBuilder under construction
    builder_calls,               \* history: the builder mutators called so far
    built,                       \* what build() returned
    json,                        \* last result of serializing the params set
    templates,                   \* the two builder templates of main (main.rs:59-61)
    main_loop                    \* the locals and the position of main (main.rs:63-149)

setVars == <<set_call, was_set>>
requestVars == <<sleep_between_requests_ms, start_ms, attempt_ms, answers, result,
                 transport_calls, slept, calls, sent, ban_events>>
envVars == <<overflow_checks, log_info>>
buildVars == <<builder, builder_calls, built, json>>
mainVars == <<templates, main_loop>>

vars == <<pc, rest_api_method, compiled, setVars, response, validated, requestVars,
          envVars, buildVars, mainVars>>

(***************************************************************************)
(* Bounds of the model.                                                    *)
(***************************************************************************)
\* entries of params + query_params + route_params of an enumerated descriptor
MaxEntries == 3
\* known-duration bans the transport answers within one call
MaxBans == 3
\* calls of `request` in one behaviour
MaxCalls == 2
\* polling cycles of main in one behaviour
MaxCycles == 2

(***************************************************************************)
(* Program constants.                                                      *)
(***************************************************************************)
SLEEP_BETWEEN_REQUESTS_INITIAL_MS == 10000
SLEEP_BETWEEN_REQUESTS_STEP_MS == 500
RATES_TOKENS_PER_REQUEST == 500
COOLDOWN_SEC == 60
BASE_URL == <<"h","t","t","p","s",":","/","/","a","p","i",".","c","o","i","n",
              "g","e","c","k","o",".","c","o","m">>

(***************************************************************************)
(* Option and string helpers.                                              *)
(***************************************************************************)
None == [some |-> FALSE, val |-> <<>>]
Some(x) == [some |-> TRUE, val |-> x]

\* s has t at position i (1-based)
MatchAt(s, i, t) ==
    /\ i + Len(t) - 1 <= Len(s)
    /\ \A j \in 1..Len(t) : s[i + j - 1] = t[j]

IsPrefix(t, s) == MatchAt(s, 1, t)

Drop(s, n) == SubSeq(s, n + 1, Len(s))

RECURSIVE ReplaceFrom(_, _, _, _)
\* str::replace from position i: leftmost, non-overlapping matches
ReplaceFrom(s, i, from, to) ==
    IF i > Len(s) THEN <<>>
    ELSE IF MatchAt(s, i, from)
         THEN to \o ReplaceFrom(s, i + Len(from), from, to)
         ELSE <<s[i]>> \o ReplaceFrom(s, i + 1, from, to)

\* str::replace(from, to), from non-empty
Replace(s, from, to) == ReplaceFrom(s, 1, from, to)

RECURSIVE Flatten(_)
Flatten(ss) == IF ss = <<>> THEN <<>> ELSE Head(ss) \o Flatten(Tail(ss))

(***************************************************************************)
(* The descriptor (rest.rs:111-120).  A RestApiMethodParam is              *)
(* [key, value: Option, is_required]; a RestApiMethodRouteParam is         *)
(* [key, value: Option].  transform_response is the name of the response   *)
(* variant the transformer wraps; configure_request is an Option flag.     *)
(***************************************************************************)
prevalue(key, value) == [key |-> key, value |-> Some(value), is_required |-> TRUE]
required(key) == [key |-> key, value |-> None, is_required |-> TRUE]
optional(key) == [key |-> key, value |-> None, is_required |-> FALSE]

(***************************************************************************)
(* url::Url as compile_uri uses it: the serialization is base, path and,   *)
(* when present, "?" and the query.                                        *)
(***************************************************************************)
\* percent-encoding of the path (url crate, PATH set: space " # < > ? ` { })
PathEncodeChar(c) ==
    CASE c = " " -> <<"%", "2", "0">>
      [] c = "{" -> <<"%", "7", "B">>
      [] c = "}" -> <<"%", "7", "D">>
      [] OTHER -> <<c>>

PathEncode(s) == Flatten([i \in 1..Len(s) |-> PathEncodeChar(s[i])])

\* application/x-www-form-urlencoded byte serializer: alphanumerics and
\* * - . _ are kept, space becomes +, every other byte is %XX
FormEncodeChar(c) ==
    CASE c = " " -> <<"+">>
      [] c = "," -> <<"%", "2", "C">>
      [] c = "/" -> <<"%", "2", "F">>
      [] c = "{" -> <<"%", "7", "B">>
      [] c = "}" -> <<"%", "7", "D">>
      [] c = "=" -> <<"%", "3", "D">>
      [] c = "&" -> <<"%", "2", "6">>
      [] OTHER -> <<c>>

FormEncode(s) == Flatten([i \in 1..Len(s) |-> FormEncodeChar(s[i])])

\* Url::parse(..) of base_url followed by the substituted path.  A string
\* that does not start with a scheme and host is a relative URL without a
\* base: Err, which compile_uri unwraps.  An empty path is normalised to "/".
UrlParse(s) ==
    IF IsPrefix(BASE_URL, s)
    THEN LET rest == Drop(s, Len(BASE_URL))
         IN  [ok |-> TRUE,
              url |-> [base |-> BASE_URL,
                       path |-> IF rest = <<>> THEN <<"/">> ELSE PathEncode(rest),
                       query |-> None]]
    ELSE [ok |-> FALSE, url |-> [base |-> <<>>, path |-> <<>>, query |-> None]]

\* res.query_pairs_mut().append_pair(key, value)
append_pair(url, key, value) ==
    LET pair == FormEncode(key) \o <<"=">> \o FormEncode(value)
    IN  [url EXCEPT !.query =
            Some(IF url.query.some /\ url.query.val # <<>>
                 THEN url.query.val \o <<"&">> \o pair
                 ELSE pair)]

\* res.to_string()
UrlToString(url) ==
    url.base \o url.path \o (IF url.query.some THEN <<"?">> \o url.query.val ELSE <<>>)

(***************************************************************************)
(* compile_uri (hyper.rs:21-56).  Its result is                            *)
(* [tag |-> "Ok", uri], [tag |-> "Err", kind, key] or [tag |-> "Panic"]    *)
(* (the unwrap of Url::parse); unused fields are empty.                    *)
(***************************************************************************)
UriOk(uri) == [tag |-> "Ok", uri |-> uri, kind |-> "", key |-> <<>>]
UriErr(kind, key) == [tag |-> "Err", uri |-> <<>>, kind |-> kind, key |-> key]
UriPanic == [tag |-> "Panic", uri |-> <<>>, kind |-> "", key |-> <<>>]

\* format!("{{{}}}", param.key)
FormatKey(key) == <<"{">> \o key \o <<"}">>

\* one pass of the route loop on a param that has a value
RouteReplace_first_only(url, param) ==
    LET key == FormatKey(param.key)
        at == {i \in 1..Len(url) : MatchAt(url, i, key)}
    IN  IF at = {} THEN url
        ELSE LET i == CHOOSE i \in at : \A j \in at : i <= j
             IN  SubSeq(url, 1, i - 1) \o param.value.val \o Drop(url, i + Len(key) - 1)

RouteReplace(url, param) == Replace(url, FormatKey(param.key), param.value.val)

RECURSIVE RouteLoop(_, _, _)
\* hyper.rs:23-35 from the i-th route param on; [ok, url, key]
RouteLoop(url, route_params, i) ==
    IF i > Len(route_params) THEN [ok |-> TRUE, url |-> url, key |-> <<>>]
    ELSE LET param == route_params[i]
         IN  IF ~param.value.some
             THEN [ok |-> FALSE, url |-> <<>>, key |-> param.key]
             ELSE RouteLoop(RouteReplace(url, param), route_params, i + 1)

\* the body of the two param loops (hyper.rs:41-45 and 49-53) for one entry:
\* "append", "fail" or "skip"
ParamItem_optional_fails(param) ==
    IF param.value.some THEN "append" ELSE "fail"

ParamItem(param) ==
    IF param.value.some THEN "append"
    ELSE IF param.is_required THEN "fail"
    ELSE "skip"

RECURSIVE ParamLoop(_, _, _)
\* a param loop from the i-th entry on; [ok, url, key]
ParamLoop(url, items, i) ==
    IF i > Len(items) THEN [ok |-> TRUE, url |-> url, key |-> <<>>]
    ELSE LET param == items[i]
             what == ParamItem(param)
         IN  CASE what = "append" ->
                    ParamLoop(append_pair(url, param.key, param.value.val), items, i + 1)
               [] what = "fail" -> [ok |-> FALSE, url |-> url, key |-> param.key]
               [] OTHER -> ParamLoop(url, items, i + 1)

\* hyper.rs:39: the params set is merged for the Get verb only
MergesParams_always(method) == TRUE

MergesParams(method) == method = "Get"

\* hyper.rs:39-55: params (for Get) first, then query_params
QueryLoops_query_params_first(m, url) ==
    LET q == ParamLoop(url, m.query_params, 1)
    IN  IF ~q.ok THEN q
        ELSE IF MergesParams(m.method) THEN ParamLoop(q.url, m.params, 1) ELSE q

QueryLoops(m, url) ==
    LET p == IF MergesParams(m.method)
             THEN ParamLoop(url, m.params, 1)
             ELSE [ok |-> TRUE, url |-> url, key |-> <<>>]
    IN  IF ~p.ok THEN p ELSE ParamLoop(p.url, m.query_params, 1)

compile_uri(m) ==
    LET r == RouteLoop(m.url, m.route_params, 1)
    IN  IF ~r.ok THEN UriErr("MissingRouteParam", r.key)
        ELSE LET res == UrlParse(m.base_url \o r.url)
             IN  IF ~res.ok THEN UriPanic
                 ELSE LET q == QueryLoops(m, res.url)
                      IN  IF ~q.ok THEN UriErr("MissingParam", q.key)
                          ELSE UriOk(UrlToString(q.url))

(***************************************************************************)
(* Enumerated inputs: descriptors as the builder and the setters can       *)
(* produce them.  Keys and values are identifier-like (no braces); keys    *)
(* may repeat, since add_param, add_query_param and add_route_param push   *)
(* without a check (rest.rs:174-185).                                      *)
(***************************************************************************)
KeyId == <<"i", "d">>
KeyK == <<"k">>
KeyA == <<"a">>
KeyB == <<"b">>
KeyIds == <<"i", "d", "s">>

RouteEntries ==
    { [key |-> KeyId, value |-> None],
      [key |-> KeyId, value |-> Some(<<"4", "2">>)],
      [key |-> KeyK, value |-> None],
      [key |-> KeyK, value |-> Some(<<"a", " ", "b">>)] }

ParamEntries ==
    { required(KeyA), optional(KeyA), prevalue(KeyA, <<"1">>),
      [key |-> KeyA, value |-> Some(<<"x", ",", "y">>), is_required |-> FALSE],
      required(KeyB), prevalue(KeyB, <<"2">>) }

UrlTemplates ==
    { <<"/", "x", "/", "{", "i", "d", "}">>,
      <<"/", "{", "k", "}", "/", "{", "i", "d", "}", "/", "{", "i", "d", "}">>,
      <<"/", "x">> }

BaseUrls == {BASE_URL, <<>>}

RequestMethod == {"Get", "Post"}

Method(base_url, method, url, params, query_params, route_params, transform) ==
    [base_url |-> base_url, method |-> method, url |-> url, params |-> params,
     query_params |-> query_params, route_params |-> route_params,
     transform_response |-> transform, configure_request |-> FALSE]

NoMethod == Method(<<>>, "Get", <<>>, <<>>, <<>>, <<>>, "")

(***************************************************************************)
(* RestApiMethodBuilder (rest.rs:136-215).  The mutators take the builder  *)
(* and return it changed; build reads it (&self) and returns               *)
(* [tag |-> "Ok", method] or [tag |-> "Panic", msg], the panic of expect.  *)
(***************************************************************************)
new ==
    [base_url |-> None, method |-> "Get", url |-> None, params |-> <<>>,
     query_params |-> <<>>, route_params |-> <<>>, transform_response |-> None,
     configure_request |-> FALSE]

set_base_url(b, base_url) == [b EXCEPT !.base_url = Some(base_url)]
set_method(b, method) == [b EXCEPT !.method = method]
set_url(b, url) == [b EXCEPT !.url = Some(url)]
add_route_param(b, param) == [b EXCEPT !.route_params = Append(@, param)]
add_param(b, param) == [b EXCEPT !.params = Append(@, param)]
add_query_param(b, param) == [b EXCEPT !.query_params = Append(@, param)]
set_transform_response(b, transform) == [b EXCEPT !.transform_response = Some(transform)]
set_configure_request(b) == [b EXCEPT !.configure_request = TRUE]

BuildOk(m) == [tag |-> "Ok", method |-> m, msg |-> ""]
BuildPanic(msg) == [tag |-> "Panic", method |-> NoMethod, msg |-> msg]

build_defaults_transform(b) ==
    IF ~b.base_url.some THEN BuildPanic("RestApiMethodBuilder base_url was not set")
    ELSE IF ~b.url.some THEN BuildPanic("RestApiMethodBuilder url was not set")
    ELSE BuildOk([base_url |-> b.base_url.val, method |-> b.method, url |-> b.url.val,
                  params |-> b.params, query_params |-> b.query_params,
                  route_params |-> b.route_params,
                  transform_response |->
                      IF b.transform_response.some THEN b.transform_response.val
                      ELSE "CgAllCoins",
                  configure_request |-> b.configure_request])

\* rest.rs:194-215: the fields are read in the order they are written
build(b) ==
    IF ~b.base_url.some THEN BuildPanic("RestApiMethodBuilder base_url was not set")
    ELSE IF ~b.url.some THEN BuildPanic("RestApiMethodBuilder url was not set")
    ELSE IF ~b.transform_response.some
    THEN BuildPanic("RestApiMethodBuilder transform_response was not set")
    ELSE BuildOk([base_url |-> b.base_url.val, method |-> b.method, url |-> b.url.val,
                  params |-> b.params, query_params |-> b.query_params,
                  route_params |-> b.route_params,
                  transform_response |-> b.transform_response.val,
                  configure_request |-> b.configure_request])

\* #[derive(Clone)] (rest.rs:136): a copy that shares nothing with the original
clone(b) == b

NoBuilt == [tag |-> "None", method |-> NoMethod, msg |-> ""]
NoJson == [serialized |-> [tag |-> "None", fields |-> <<>>, key |-> <<>>],
           converted |-> [tag |-> "None", text |-> <<>>]]
NoTemplates == [all_coins |-> new, coin_rates |-> new]
NoMain == [pc |-> "none", cycle |-> 0, coins_len |-> 0, iterations |-> 0, i |-> 0,
           slept_ms |-> None, cycles_before |-> 0, bans_before |-> 0]
NoCompiled == [tag |-> "None", uri |-> <<>>, kind |-> "", key |-> <<>>]
NoSetCall == [fn |-> "", key |-> <<>>, tag |-> "", err |-> ""]
NoResponse == [status |-> 0, retry_after |-> None, body |-> ""]
NoValidated == [tag |-> "None", seconds |-> [some |-> FALSE, val |-> [hi |-> 0, lo |-> 0]], code |-> 0]
NoResult == [tag |-> "None", err |-> ""]
NoSleep == [count |-> 0, last |-> [hi |-> 0, lo |-> 0]]
NoRequest == [uri |-> <<>>, user_agent |-> FALSE, configured |-> FALSE]

\* the variables a specification does not use
IdleUri == compiled = NoCompiled
IdleSetters == set_call = NoSetCall /\ was_set = {}
IdleValidate == response = NoResponse /\ validated = NoValidated
IdleRequest ==
    /\ sleep_between_requests_ms = SLEEP_BETWEEN_REQUESTS_INITIAL_MS
    /\ start_ms = SLEEP_BETWEEN_REQUESTS_INITIAL_MS
    /\ attempt_ms = SLEEP_BETWEEN_REQUESTS_INITIAL_MS
    /\ answers = <<>>
    /\ result = NoResult
    /\ transport_calls = 0
    /\ slept = NoSleep
    /\ calls = 0
    /\ sent = NoRequest
    /\ ban_events = 0
IdleBuild == overflow_checks = FALSE /\ log_info = FALSE
IdleBuilder == builder = new /\ builder_calls = {} /\ built = NoBuilt
IdleSerialize == json = NoJson
IdleMain == templates = NoTemplates /\ main_loop = NoMain

(***************************************************************************)
(* SpecUri: compile_uri applied to every enumerated descriptor.            *)
(***************************************************************************)
InitUri ==
    /\ pc = "compile_uri"
    /\ \E np \in 0..MaxEntries :
       \E nq \in 0..(MaxEntries - np) :
       \E nr \in 0..(MaxEntries - np - nq) :
       \E params \in [1..np -> ParamEntries] :
       \E query_params \in [1..nq -> ParamEntries] :
       \E route_params \in [1..nr -> RouteEntries] :
       \E base_url \in BaseUrls, method \in RequestMethod, url \in UrlTemplates :
          rest_api_method =
              Method(base_url, method, url, params, query_params, route_params,
                     "CgAllCoins")
    /\ IdleUri /\ IdleSetters /\ IdleValidate /\ IdleRequest /\ IdleBuild
    /\ IdleBuilder /\ IdleSerialize /\ IdleMain

CompileUri ==
    /\ pc = "compile_uri"
    /\ compiled' = compile_uri(rest_api_method)
    /\ pc' = "compiled"
    /\ UNCHANGED <<rest_api_method, setVars, response, validated, requestVars, envVars,
                   buildVars, mainVars>>

NextUri == CompileUri

SpecUri == InitUri /\ [][NextUri]_vars

(***************************************************************************)
(* What the claims about compile_uri expect, stated without the loops of   *)
(* the code.                                                               *)
(***************************************************************************)
MinOf(S) == CHOOSE i \in S : \A j \in S : i <= j

HasValue(e) == e.value.some
ValueBearing(items) == SelectSeq(items, HasValue)
Unset(items) == {i \in 1..Len(items) : ~items[i].value.some}
UnsetRequired(items) ==
    {i \in 1..Len(items) : items[i].is_required /\ ~items[i].value.some}

\* the route params whose placeholder token stands at position i of the template
TokensAt(url, i, route_params) ==
    {n \in 1..Len(route_params) : MatchAt(url, i, FormatKey(route_params[n].key))}

RECURSIVE SubstAll(_, _, _)
\* the template read left to right, every placeholder token of a declared
\* route param replaced by the value of (the first declaration of) that param
SubstAll(url, i, route_params) ==
    IF i > Len(url) THEN <<>>
    ELSE LET at == TokensAt(url, i, route_params)
         IN  IF at = {}
             THEN <<url[i]>> \o SubstAll(url, i + 1, route_params)
             ELSE LET p == route_params[MinOf(at)]
                  IN  p.value.val
                      \o SubstAll(url, i + Len(FormatKey(p.key)), route_params)

RECURSIVE JoinPairs(_)
\* k1=v1&k2=v2&... of a sequence of value-bearing entries, form-urlencoded
JoinPairs(entries) ==
    IF entries = <<>> THEN <<>>
    ELSE FormEncode(entries[1].key) \o <<"=">> \o FormEncode(entries[1].value.val)
         \o (IF Len(entries) = 1 THEN <<>> ELSE <<"&">> \o JoinPairs(Tail(entries)))

\* the part of a URI after its first "?", if any
QueryPart(uri) ==
    LET at == {i \in 1..Len(uri) : uri[i] = "?"}
    IN  IF at = {} THEN None ELSE Some(Drop(uri, MinOf(at)))

\* the part of a URI before its first "?"
BeforeQuery(uri) ==
    LET at == {i \in 1..Len(uri) : uri[i] = "?"}
    IN  IF at = {} THEN uri ELSE SubSeq(uri, 1, MinOf(at) - 1)

ExpectedQuery(entries) == IF entries = <<>> THEN None ELSE Some(JoinPairs(entries))

IsSuffix(t, s) == Len(t) <= Len(s) /\ MatchAt(s, Len(s) - Len(t) + 1, t)

Occurs(t, s) == \E i \in 1..Len(s) : MatchAt(s, i, t)

CountOf(c, s) == Cardinality({i \in 1..Len(s) : s[i] = c})

\* the entries compile_uri reads for the query string
Considered(m) == (IF m.method = "Get" THEN m.params ELSE <<>>) \o m.query_params

\* C6: compile_uri fails with the missing-route-param error naming the first
\* route param (in declaration order) that has no value, and returns no URI
\* then; when every route param has a value and a URI is returned, its path is
\* the template with every occurrence of every declared placeholder token
\* replaced by the param's value (percent-encoded as Url::parse does).
C6_RouteParams ==
    pc = "compiled" =>
        LET m == rest_api_method
            unset == Unset(m.route_params)
        IN  /\ unset # {} =>
                compiled = UriErr("MissingRouteParam", m.route_params[MinOf(unset)].key)
            /\ unset = {} => compiled.kind # "MissingRouteParam"
            /\ compiled.tag = "Ok" =>
                BeforeQuery(compiled.uri)
                    = m.base_url \o PathEncode(SubstAll(m.url, 1, m.route_params))

\* C6 witness: template /x/{id} with id = "42" compiled to a URI ending in /x/42
C6_Witness ==
    /\ pc = "compiled"
    /\ rest_api_method.url = <<"/", "x", "/", "{", "i", "d", "}">>
    /\ rest_api_method.route_params = <<[key |-> KeyId, value |-> Some(<<"4", "2">>)]>>
    /\ compiled.tag = "Ok"
    /\ compiled.uri = BASE_URL \o <<"/", "x", "/", "4", "2">>

\* C7: for a Get descriptor the query string of the compiled URI is exactly
\* the value-bearing params entries in the order they were added, followed by
\* the value-bearing query_params entries in the order they were added.
C7_DeclarationOrder ==
    (pc = "compiled" /\ rest_api_method.method = "Get" /\ compiled.tag = "Ok") =>
        QueryPart(compiled.uri)
            = ExpectedQuery(ValueBearing(rest_api_method.params)
                            \o ValueBearing(rest_api_method.query_params))

\* C7 witness: params a=1 then b=2 yield ?a=1&b=2
C7_Witness ==
    /\ pc = "compiled"
    /\ rest_api_method.method = "Get"
    /\ rest_api_method.params = <<prevalue(KeyA, <<"1">>), prevalue(KeyB, <<"2">>)>>
    /\ rest_api_method.query_params = <<>>
    /\ compiled.tag = "Ok"
    /\ QueryPart(compiled.uri) = Some(<<"a", "=", "1", "&", "b", "=", "2">>)

\* C8: for a Post descriptor the params set has no part in compilation: the
\* query string holds the value-bearing query_params entries only, a missing
\* param error names a required-but-unset query_params entry, and with the
\* route params set and no such query_params entry compilation succeeds
\* whatever params holds; for both verbs the query string ends with the
\* value-bearing query_params entries.
C8_ParamsMergedForGetOnly ==
    pc = "compiled" =>
        LET m == rest_api_method
            q == ValueBearing(m.query_params)
        IN  /\ (m.method = "Post" /\ compiled.tag = "Ok") =>
                QueryPart(compiled.uri) = ExpectedQuery(q)
            /\ (m.method = "Post" /\ compiled.kind = "MissingParam") =>
                \E i \in UnsetRequired(m.query_params) :
                    compiled.key = m.query_params[i].key
            /\ (m.method = "Post" /\ Unset(m.route_params) = {}
                    /\ m.base_url = BASE_URL /\ UnsetRequired(m.query_params) = {}) =>
                compiled.tag = "Ok"
            /\ (compiled.tag = "Ok" /\ q # <<>>) =>
                IsSuffix(JoinPairs(q), compiled.uri)

\* C8 witness: a Post descriptor with a required-but-unset params entry and a
\* value-bearing one compiles, and only its query_params entry is in the URI
C8_Witness ==
    /\ pc = "compiled"
    /\ rest_api_method.method = "Post"
    /\ rest_api_method.params = <<required(KeyA), prevalue(KeyB, <<"2">>)>>
    /\ rest_api_method.query_params = <<prevalue(KeyA, <<"1">>)>>
    /\ compiled.tag = "Ok"
    /\ QueryPart(compiled.uri) = Some(<<"a", "=", "1">>)

\* C9: once the route params are substituted and the URL parsed, compile_uri
\* fails with the missing-param error naming the first required entry without
\* a value among the entries it reads (params for Get, then query_params),
\* and otherwise succeeds: an optional entry without a value causes no error
\* and is left out, so the URI holds exactly one pair per value-bearing entry.
C9_MissingRequiredParam ==
    (pc = "compiled" /\ Unset(rest_api_method.route_params) = {}
        /\ rest_api_method.base_url = BASE_URL) =>
        LET items == Considered(rest_api_method)
            missing == UnsetRequired(items)
        IN  /\ missing # {} =>
                compiled = UriErr("MissingParam", items[MinOf(missing)].key)
            /\ missing = {} =>
                /\ compiled.tag = "Ok"
                /\ CountOf("=", compiled.uri) = Len(ValueBearing(items))
                /\ \A i \in 1..Len(items) :
                      items[i].value.some =>
                          Occurs(FormEncode(items[i].key) \o <<"=">>
                                 \o FormEncode(items[i].value.val), compiled.uri)

\* C9 witness: an optional entry without a value is left out of a URI that
\* compiles, and a value-bearing entry after it is there
C9_Witness ==
    /\ pc = "compiled"
    /\ rest_api_method.method = "Get"
    /\ rest_api_method.params = <<optional(KeyA), prevalue(KeyB, <<"2">>)>>
    /\ rest_api_method.query_params = <<>>
    /\ compiled.tag = "Ok"
    /\ QueryPart(compiled.uri) = Some(<<"b", "=", "2">>)

(***************************************************************************)
(* u32 values (Banned(Option<u32>), rest.rs:65) as two 16-bit limbs        *)
(* [hi, lo], value hi * 2^16 + lo: the full 32-bit range, with the         *)
(* overflow of parsing and of "+ 1" where the code has it.                 *)
(***************************************************************************)
Limb == 256 * 256

U32(hi, lo) == [hi |-> hi, lo |-> lo]
NoneU32 == [some |-> FALSE, val |-> U32(0, 0)]
SomeU32(x) == [some |-> TRUE, val |-> x]

U32IsMax(x) == x.hi = Limb - 1 /\ x.lo = Limb - 1

\* x + 1 modulo 2^32
U32WrappingAddOne(x) ==
    IF x.lo < Limb - 1 THEN U32(x.hi, x.lo + 1)
    ELSE IF x.hi < Limb - 1 THEN U32(x.hi + 1, 0)
    ELSE U32(0, 0)

DigitValue(c) ==
    CASE c = "0" -> 0 [] c = "1" -> 1 [] c = "2" -> 2 [] c = "3" -> 3
      [] c = "4" -> 4 [] c = "5" -> 5 [] c = "6" -> 6 [] c = "7" -> 7
      [] c = "8" -> 8 [] c = "9" -> 9 [] OTHER -> -1

RECURSIVE ParseDigits(_, _, _)
\* the digit loop of u32::from_str: checked acc * 10 + digit
ParseDigits(s, i, acc) ==
    IF i > Len(s) THEN [ok |-> TRUE, val |-> acc]
    ELSE LET d == DigitValue(s[i])
             lo == acc.lo * 10 + (IF d < 0 THEN 0 ELSE d)
             hi == acc.hi * 10 + (lo \div Limb)
         IN  IF d < 0 \/ hi >= Limb
             THEN [ok |-> FALSE, val |-> U32(0, 0)]
             ELSE ParseDigits(s, i + 1, U32(hi, lo % Limb))

\* str::parse::<u32>(): empty, a lone sign, "-", a non-digit and a value
\* above 2^32 - 1 are errors; one leading "+" is accepted
ParseU32(s) ==
    IF s = <<>> \/ s = <<"+">> \/ s = <<"-">>
    THEN [ok |-> FALSE, val |-> U32(0, 0)]
    ELSE ParseDigits(IF s[1] = "+" THEN Tail(s) ELSE s, 1, U32(0, 0))

\* HeaderValue::to_str(): Err when a byte is not visible ASCII; the
\* element "0x80" stands for such a byte
ToStrOk(v) == \A i \in 1..Len(v) : v[i] # "0x80"

(***************************************************************************)
(* Responses.  status is the u16 status code, retry_after the value of     *)
(* the retry-after header if the response has one, body one of             *)
(*   "array"  a JSON array of coins      "object"  a JSON map of rates     *)
(*   "text"   UTF-8 that is no JSON      "binary"  bytes that are no UTF-8 *)
(***************************************************************************)
Statuses == {200, 201, 429, 500}

Bodies == {"array", "object", "text", "binary"}

RetryAfterValues ==
    { <<"0">>, <<"2">>, <<"+", "5">>, <<"0", "0", "7">>,
      <<"1", "6", "7", "7", "7", "2", "1", "6">>,
      <<"4", "2", "9", "4", "9", "6", "7", "2", "9", "5">>,
      <<"4", "2", "9", "4", "9", "6", "7", "2", "9", "6">>,
      <<"-", "1">>, <<>>, <<"a">>, <<"2", " ">>, <<"0x80">> }

Headers == {None} \cup {Some(v) : v \in RetryAfterValues}

Responses == [status : Statuses, retry_after : Headers, body : Bodies]

\* the response types the two transformers decode (main.rs:157, 179)
ResponseTypes == {"CgAllCoins", "CgRates"}

\* serde_json::from_slice::<M>(body) is Ok
Decodes(M, body) ==
    \/ M = "CgAllCoins" /\ body = "array"
    \/ M = "CgRates" /\ body = "object"

\* String::from_utf8(body.to_vec()) is Ok
IsUtf8(body) == body # "binary"

(***************************************************************************)
(* validate_response::<M> (main.rs:296-324).  Its result is                *)
(* [tag, seconds, code]: "Ok" (the decoded body as M), "FailToParse",      *)
(* "Banned" with seconds, "UnexpectedResponseCode" with code, or "Panic"   *)
(* where the code unwraps an Err.  info!(..) evaluates its argument only   *)
(* when the info level is enabled.                                         *)
(***************************************************************************)
Validated(tag, seconds, code) == [tag |-> tag, seconds |-> seconds, code |-> code]

\* main.rs:304-313
ValidateOk(M, body, log) ==
    IF Decodes(M, body) THEN Validated("Ok", NoneU32, 0)
    ELSE IF log /\ ~IsUtf8(body) THEN Validated("Panic", NoneU32, 0)
    ELSE Validated("FailToParse", NoneU32, 0)

\* main.rs:314-321
ValidateBanned(retry_after) ==
    IF retry_after.some
    THEN IF ~ToStrOk(retry_after.val) THEN Validated("Panic", NoneU32, 0)
         ELSE LET period_seconds == ParseU32(retry_after.val)
              IN  IF ~period_seconds.ok THEN Validated("Panic", NoneU32, 0)
                  ELSE Validated("Banned", SomeU32(period_seconds.val), 0)
    ELSE Validated("Banned", NoneU32, 0)

validate_response(M, code, body, retry_after, log) ==
    CASE code = 200 -> ValidateOk(M, body, log)
      [] code = 429 -> ValidateBanned(retry_after)
      [] OTHER -> Validated("UnexpectedResponseCode", NoneU32, code)

\* the transformers of the two templates (main.rs:153-161, 175-183): the
\* decoded value wrapped in the variant M, an error wrapped unchanged
transform_response(m, resp, log) ==
    validate_response(m.transform_response, resp.status, resp.body, resp.retry_after, log)

(***************************************************************************)
(* SpecValidate: validate_response applied to every enumerated response,   *)
(* for both response types, with the info level on and off.                *)
(***************************************************************************)
InitValidate ==
    /\ pc = "validate"
    /\ \E M \in ResponseTypes :
          rest_api_method = Method(BASE_URL, "Get", <<"/", "x">>, <<>>, <<>>, <<>>, M)
    /\ response \in Responses
    /\ validated = NoValidated
    /\ log_info \in BOOLEAN
    /\ overflow_checks = FALSE
    /\ IdleUri /\ IdleSetters /\ IdleRequest
    /\ IdleBuilder /\ IdleSerialize /\ IdleMain

ValidateResponse ==
    /\ pc = "validate"
    /\ validated' = validate_response(rest_api_method.transform_response,
                                      response.status, response.body,
                                      response.retry_after, log_info)
    /\ pc' = "validated"
    /\ UNCHANGED <<rest_api_method, compiled, setVars, response, requestVars, envVars,
                   buildVars, mainVars>>

NextValidate == ValidateResponse

SpecValidate == InitValidate /\ [][NextValidate]_vars

\* C4: on status 429 validate_response ends in Banned(Some(n)) when the
\* retry-after header is present and parses as the non-negative integer n, and
\* in Banned(None) when the header is absent or present but not parseable;
\* never in anything else.
C4_Banned ==
    (pc = "validated" /\ response.status = 429) =>
        LET h == response.retry_after
            parses == h.some /\ ToStrOk(h.val) /\ ParseU32(h.val).ok
        IN  /\ parses => validated = Validated("Banned", SomeU32(ParseU32(h.val).val), 0)
            /\ ~parses => validated = Validated("Banned", NoneU32, 0)

\* C5: validate_response classifies by status alone and totally: 200 yields
\* the decoded value when the body decodes and FailToParse when it does not;
\* every status other than 200 and 429 yields UnexpectedResponseCode with
\* exactly that status, whatever the body and the headers are.
C5_ClassifiedByStatus ==
    pc = "validated" =>
        LET M == rest_api_method.transform_response
        IN  /\ (response.status = 200 /\ Decodes(M, response.body)) =>
                validated.tag = "Ok"
            /\ (response.status = 200 /\ ~Decodes(M, response.body)) =>
                validated.tag = "FailToParse"
            /\ response.status \notin {200, 429} =>
                validated = Validated("UnexpectedResponseCode", NoneU32, response.status)

(***************************************************************************)
(* The descriptors main builds (main.rs:152-203, 210, 231-236), and one    *)
(* whose route param was never set, as a caller of `request` can pass.     *)
(***************************************************************************)
AllCoinsMethod ==
    Method(BASE_URL, "Get", <<"/", "a", "p", "i", "/", "v", "3", "/", "c", "o", "i", "n", "s", "/", "l", "i", "s", "t">>,
           <<prevalue(<<"i", "n", "c", "l", "u", "d", "e", "_", "p", "l", "a", "t", "f", "o", "r", "m">>, <<"t", "r", "u", "e">>)>>,
           <<>>, <<>>, "CgAllCoins")

CoinRatesMethod(ids) ==
    Method(BASE_URL, "Get", <<"/", "a", "p", "i", "/", "v", "3", "/", "s", "i", "m", "p", "l", "e", "/", "p", "r", "i", "c", "e">>,
           <<prevalue(<<"v", "s", "_", "c", "u", "r", "r", "e", "n", "c", "i", "e", "s">>, <<"u", "s", "d">>),
             prevalue(<<"p", "r", "e", "c", "i", "s", "i", "o", "n">>, <<"1", "8">>),
             prevalue(<<"i", "n", "c", "l", "u", "d", "e", "_", "l", "a", "s", "t", "_", "u", "p", "d", "a", "t", "e", "d", "_", "a", "t">>, <<"t", "r", "u", "e">>),
             prevalue(<<"i", "n", "c", "l", "u", "d", "e", "_", "m", "a", "r", "k", "e", "t", "_", "c", "a", "p">>, <<"t", "r", "u", "e">>),
             prevalue(KeyIds, ids)>>,
           <<>>, <<>>, "CgRates")

UnsetRouteMethod ==
    Method(BASE_URL, "Get", <<"/", "x", "/", "{", "i", "d", "}">>, <<>>, <<>>,
           <<[key |-> KeyId, value |-> None]>>, "CgRates")

\* one with a required param that was never set
UnsetParamMethod ==
    Method(BASE_URL, "Get", <<"/", "x">>, <<prevalue(KeyB, <<"2">>), required(KeyA)>>,
           <<>>, <<>>, "CgRates")

\* one built with set_configure_request (rest.rs:190-193)
ConfiguredMethod == [AllCoinsMethod EXCEPT !.configure_request = TRUE]

RequestedMethods ==
    {AllCoinsMethod, CoinRatesMethod(<<"x", ",", "y">>), UnsetRouteMethod,
     UnsetParamMethod, ConfiguredMethod}

\* what the transport answers to an attempt of `request`
TransportRetryAfter ==
    { <<"0">>, <<"2">>, <<"1", "6", "7", "7", "7", "2", "1", "6">>,
      <<"4", "2", "9", "4", "9", "6", "7", "2", "9", "5">>, <<"a">> }

TransportResponses ==
    [status : {200, 429, 500},
     retry_after : {None} \cup {Some(v) : v \in TransportRetryAfter},
     body : Bodies]

\* what the transport answers inside the polling loop
MainTransportResponses ==
    [status : {200, 429, 500},
     retry_after : {None, Some(<<"2">>),
                    Some(<<"4", "2", "9", "4", "9", "6", "7", "2", "9", "5">>)},
     body : {"array", "object"}]

\* the class of an answer, read off the response itself
AnswerClass(M, resp) ==
    CASE resp.status = 200 /\ Decodes(M, resp.body) -> "Success"
      [] resp.status = 200 -> "Undecodable"
      [] resp.status = 429 /\ ~resp.retry_after.some -> "BanUnknown"
      [] resp.status = 429 /\ ToStrOk(resp.retry_after.val)
            /\ ParseU32(resp.retry_after.val).ok -> "BanKnown"
      [] resp.status = 429 -> "BanUnparseable"
      [] OTHER -> "UnexpectedStatus"

KnownBans(as) == Cardinality({i \in 1..Len(as) : as[i] = "BanKnown"})

\* u32 to f32 (seconds.to_f32(), main.rs:280): exact below 2^24, above it
\* rounded to 24 significant bits, ties to even
F32OfU32(x) ==
    IF x.hi < 256 THEN x
    ELSE LET b == CHOOSE n \in 9..16 : 2^(n - 1) <= x.hi /\ x.hi < 2^n
             ulp == 2^(b - 8)
             q == x.lo \div ulp
             r == x.lo % ulp
             up == r * 2 > ulp \/ (r * 2 = ulp /\ q % 2 = 1)
             lo == (q + (IF up THEN 1 ELSE 0)) * ulp
         IN  IF lo = Limb THEN U32(x.hi + 1, 0) ELSE U32(x.hi, lo)

(***************************************************************************)
(* request (main.rs:253-294): the match on the transformed response        *)
(* (main.rs:271-291).  [next, ms, seconds, result]: next is "return",      *)
(* "sleep" (then continue) or "panic"; ms the backoff cell after it;       *)
(* seconds what it sleeps.  "seconds + 1" is a u32 addition: with overflow *)
(* checks it panics on 2^32 - 1, without them it wraps to 0.               *)
(***************************************************************************)
Ok(ms) == [next |-> "return", ms |-> ms, seconds |-> U32(0, 0),
           result |-> [tag |-> "Ok", err |-> ""]]
Err(ms, e) == [next |-> "return", ms |-> ms, seconds |-> U32(0, 0),
               result |-> [tag |-> "Err", err |-> e]]
Panicked(ms) == [next |-> "panic", ms |-> ms, seconds |-> U32(0, 0), result |-> NoResult]
SleepThenContinue(ms, seconds) ==
    [next |-> "sleep", ms |-> ms, seconds |-> seconds, result |-> NoResult]

BannedFor_adds_step_after_overflow(seconds, ms, checks) ==
    IF U32IsMax(seconds) /\ checks
    THEN Panicked(ms)
    ELSE SleepThenContinue(ms + SLEEP_BETWEEN_REQUESTS_STEP_MS,
                           F32OfU32(U32WrappingAddOne(seconds)))

\* main.rs:276-281
BannedFor(seconds, ms, checks) ==
    IF U32IsMax(seconds) /\ checks
    THEN Panicked(ms + SLEEP_BETWEEN_REQUESTS_STEP_MS)
    ELSE SleepThenContinue(ms + SLEEP_BETWEEN_REQUESTS_STEP_MS,
                           F32OfU32(U32WrappingAddOne(seconds)))

RequestMatch_retries_unknown_ban(t, ms, checks) ==
    CASE t.tag = "Ok" -> Ok(ms)
      [] t.tag = "Banned" ->
            IF t.seconds.some THEN BannedFor(t.seconds.val, ms, checks)
            ELSE SleepThenContinue(ms, U32(0, 1))
      [] t.tag = "Panic" -> Panicked(ms)
      [] OTHER -> Err(ms, "Unhandled Validate Response Error")

RequestMatch_steps_on_any_ban(t, ms, checks) ==
    CASE t.tag = "Ok" -> Ok(ms)
      [] t.tag = "Banned" ->
            IF t.seconds.some THEN BannedFor(t.seconds.val, ms, checks)
            ELSE Err(ms + SLEEP_BETWEEN_REQUESTS_STEP_MS, "Banned for unknown time")
      [] t.tag = "Panic" -> Panicked(ms)
      [] OTHER -> Err(ms, "Unhandled Validate Response Error")

RequestMatch(t, ms, checks) ==
    CASE t.tag = "Ok" -> Ok(ms)
      [] t.tag = "Banned" ->
            IF t.seconds.some THEN BannedFor(t.seconds.val, ms, checks)
            ELSE Err(ms, "Banned for unknown time")
      [] t.tag = "Panic" -> Panicked(ms)
      [] OTHER -> Err(ms, "Unhandled Validate Response Error")

(***************************************************************************)
(* Spec: calls of `request` sharing the backoff cell, against a transport  *)
(* that answers each attempt with any response or fails.                   *)
(***************************************************************************)
Init ==
    /\ pc = "idle"
    /\ rest_api_method = NoMethod
    /\ IdleUri /\ IdleSetters /\ IdleValidate /\ IdleRequest
    /\ IdleBuilder /\ IdleSerialize /\ IdleMain
    /\ overflow_checks \in BOOLEAN
    /\ log_info \in BOOLEAN

\* request is entered with a descriptor and the backoff cell (main.rs:253-257)
Begin(m) ==
    /\ rest_api_method' = m
    /\ calls' = calls + 1
    /\ start_ms' = sleep_between_requests_ms
    /\ attempt_ms' = sleep_between_requests_ms
    /\ answers' = <<>>
    /\ transport_calls' = 0
    /\ slept' = NoSleep
    /\ result' = NoResult
    /\ compiled' = NoCompiled
    /\ response' = NoResponse
    /\ validated' = NoValidated
    /\ sent' = NoRequest
    /\ pc' = "req_compile"
    /\ UNCHANGED <<sleep_between_requests_ms, ban_events, setVars, envVars, buildVars>>

\* a caller passes a descriptor and the backoff cell (main.rs:212, 234-238);
\* after an Err the callers return and main exits (main.rs:73-78, 111-116)
Call ==
    /\ pc = "idle" \/ (pc = "returned" /\ result.tag = "Ok")
    /\ calls < MaxCalls
    /\ \E m \in RequestedMethods : Begin(m)
    /\ UNCHANGED mainVars

RequestCompile_retries_on_error ==
    /\ pc = "req_compile"
    /\ compiled' = compile_uri(rest_api_method)
    /\ CASE compiled'.tag = "Ok" -> pc' = "req_send" /\ UNCHANGED result
         [] compiled'.tag = "Err" -> pc' = "ban_sleep" /\ UNCHANGED result
         [] OTHER -> pc' = "panicked" /\ UNCHANGED result
    /\ UNCHANGED <<rest_api_method, setVars, response, validated,
                   sleep_between_requests_ms, start_ms, attempt_ms, answers,
                   transport_calls, slept, calls, sent, ban_events, envVars, buildVars,
                   mainVars>>

\* main.rs:260: let uri = compile_uri(&rest_api_method)?;
RequestCompile ==
    /\ pc = "req_compile"
    /\ compiled' = compile_uri(rest_api_method)
    /\ CASE compiled'.tag = "Ok" -> pc' = "req_send" /\ UNCHANGED result
         [] compiled'.tag = "Err" ->
                /\ pc' = "returned"
                /\ result' = [tag |-> "Err", err |-> compiled'.kind]
         [] OTHER -> pc' = "panicked" /\ UNCHANGED result
    /\ UNCHANGED <<rest_api_method, setVars, response, validated,
                   sleep_between_requests_ms, start_ms, attempt_ms, answers,
                   transport_calls, slept, calls, sent, ban_events, envVars, buildVars,
                   mainVars>>

\* main.rs:262-264: the request is built with the User-Agent header
\* (hyper.rs:58-63), the uri and an empty body, and handed to the transport
RequestSend ==
    /\ pc = "req_send"
    /\ sent' = [uri |-> compiled.uri, user_agent |-> TRUE, configured |-> FALSE]
    /\ transport_calls' = transport_calls + 1
    /\ attempt_ms' = sleep_between_requests_ms
    /\ pc' = "await_response"
    /\ UNCHANGED <<rest_api_method, compiled, setVars, response, validated,
                   sleep_between_requests_ms, start_ms, answers, result, slept,
                   calls, ban_events, envVars, buildVars, mainVars>>

\* main.rs:264-268: the transport answers with a status and headers
TransportResponds ==
    /\ pc = "await_response"
    /\ \E resp \in (IF main_loop.pc = "none" THEN TransportResponses
                    ELSE MainTransportResponses) :
          /\ AnswerClass(rest_api_method.transform_response, resp) = "BanKnown"
                => /\ KnownBans(answers) < MaxBans
                   /\ main_loop.pc # "none"
                         => ban_events < main_loop.bans_before + MaxBans
          /\ response' = resp
    /\ pc' = "await_body"
    /\ UNCHANGED <<rest_api_method, compiled, setVars, validated, requestVars, envVars,
                   buildVars, mainVars>>

TransportFails_retried ==
    /\ pc = "await_response"
    /\ answers' = Append(answers, "TransportError")
    /\ pc' = "req_compile"
    /\ UNCHANGED <<rest_api_method, compiled, setVars, response, validated,
                   sleep_between_requests_ms, start_ms, attempt_ms, result,
                   transport_calls, slept, calls, sent, ban_events, envVars, buildVars,
                   mainVars>>

\* main.rs:264: hyper.request(..).await.unwrap() on a transport error
TransportFails ==
    /\ pc = "await_response"
    /\ answers' = Append(answers, "TransportError")
    /\ pc' = "panicked"
    /\ UNCHANGED <<rest_api_method, compiled, setVars, response, validated,
                   sleep_between_requests_ms, start_ms, attempt_ms, result,
                   transport_calls, slept, calls, sent, ban_events, envVars, buildVars,
                   mainVars>>

\* main.rs:270: the whole body has been read
BodyRead ==
    /\ pc = "await_body"
    /\ answers' = Append(answers, AnswerClass(rest_api_method.transform_response, response))
    /\ pc' = "req_transform"
    /\ UNCHANGED <<rest_api_method, compiled, setVars, response, validated,
                   sleep_between_requests_ms, start_ms, attempt_ms, result,
                   transport_calls, slept, calls, sent, ban_events, envVars, buildVars,
                   mainVars>>

\* main.rs:270: body::to_bytes(..).await.unwrap() on a transport error
BodyFails ==
    /\ pc = "await_body"
    /\ answers' = Append(answers, "TransportError")
    /\ pc' = "panicked"
    /\ UNCHANGED <<rest_api_method, compiled, setVars, response, validated,
                   sleep_between_requests_ms, start_ms, attempt_ms, result,
                   transport_calls, slept, calls, sent, ban_events, envVars, buildVars,
                   mainVars>>

\* main.rs:271-291: transform the response and act on the outcome
RequestTransform ==
    /\ pc = "req_transform"
    /\ LET t == transform_response(rest_api_method, response, log_info)
           r == RequestMatch(t, sleep_between_requests_ms, overflow_checks)
       IN  /\ validated' = t
           /\ sleep_between_requests_ms' = r.ms
           /\ result' = r.result
           /\ ban_events' = IF t.tag = "Banned" /\ t.seconds.some
                            THEN ban_events + 1 ELSE ban_events
           /\ CASE r.next = "return" -> pc' = "returned" /\ UNCHANGED slept
                [] r.next = "sleep" ->
                      /\ pc' = "ban_sleep"
                      /\ slept' = [count |-> slept.count + 1, last |-> r.seconds]
                [] OTHER -> pc' = "panicked" /\ UNCHANGED slept
    /\ UNCHANGED <<rest_api_method, compiled, setVars, response, start_ms,
                   attempt_ms, answers, transport_calls, calls, sent, envVars, buildVars,
                   mainVars>>

\* main.rs:280-281: the sleep is over; continue
BanSleepDone ==
    /\ pc = "ban_sleep"
    /\ pc' = "req_compile"
    /\ UNCHANGED <<rest_api_method, compiled, setVars, response, validated,
                   requestVars, envVars,
                   buildVars, mainVars>>

Next ==
    \/ Call
    \/ RequestCompile
    \/ RequestSend
    \/ TransportResponds
    \/ TransportFails
    \/ BodyRead
    \/ BodyFails
    \/ RequestTransform
    \/ BanSleepDone

Spec == Init /\ [][Next]_vars

Last(as) == as[Len(as)]

\* C1: within a call, every attempt that was followed by another attempt was
\* answered with a known-duration ban; after any other answer (success, parse
\* failure, unexpected status, ban of unknown duration, transport error) the
\* call is over at that attempt and no further transport call is made.
C1_OnlyKnownBanRetried ==
    /\ \A i \in 1..(Len(answers) - 1) : answers[i] = "BanKnown"
    /\ transport_calls <= Len(answers) + 1
    /\ (answers # <<>> /\ Last(answers) # "BanKnown") =>
          /\ pc \in {"req_transform", "returned", "panicked"}
          /\ transport_calls = Len(answers)

\* C1 witness: a known-duration ban was retried and the next answer, an
\* unexpected status, ended the call after two transport calls
C1_Witness ==
    /\ pc = "returned"
    /\ answers = <<"BanKnown", "UnexpectedStatus">>
    /\ transport_calls = 2
    /\ result.tag = "Err"

\* C2: when the transport answers a call with k known-duration bans and then
\* a 200 that decodes, `request` returns that success with the backoff cell at
\* its value at call start plus k steps; so a known-duration ban never ends the
\* call, whatever value it carries.
C2_BansThenSuccess ==
    LET n == Len(answers)
        over == pc \in {"returned", "panicked"}
    IN  /\ (over /\ n >= 1 /\ Last(answers) = "Success"
                /\ \A i \in 1..(n - 1) : answers[i] = "BanKnown") =>
              /\ pc = "returned"
              /\ result.tag = "Ok"
              /\ sleep_between_requests_ms
                    = start_ms + (n - 1) * SLEEP_BETWEEN_REQUESTS_STEP_MS
        /\ (over /\ n >= 1) => Last(answers) # "BanKnown"

\* C3: an attempt answered with 429 and no retry-after header ends the call
\* with the error "Banned for unknown time": no further transport call, no
\* sleep for that attempt, and the backoff cell as it was when the attempt
\* was sent.
C3_UnknownBanIsFatal ==
    (answers # <<>> /\ Last(answers) = "BanUnknown" /\ pc # "req_transform") =>
        /\ pc = "returned"
        /\ result = [tag |-> "Err", err |-> "Banned for unknown time"]
        /\ transport_calls = Len(answers)
        /\ slept.count = Len(answers) - 1
        /\ sleep_between_requests_ms = attempt_ms

\* C3 witness: after one known-duration ban, a 429 without the header ended
\* the call with an error
C3_Witness ==
    /\ pc = "returned"
    /\ answers = <<"BanKnown", "BanUnknown">>
    /\ response.status = 429 /\ ~response.retry_after.some
    /\ result.tag = "Err"
    /\ sleep_between_requests_ms = start_ms + SLEEP_BETWEEN_REQUESTS_STEP_MS

\* C14: an attempt that ends in a transport error (sending the request or
\* reading the body) ends the call there: it panics, so nothing is returned as
\* a result, no further transport call and no sleep follow, and the backoff
\* cell is as it was when the attempt was sent.
C14_TransportFailureIsFatal ==
    (answers # <<>> /\ Last(answers) = "TransportError") =>
        /\ pc = "panicked"
        /\ result = NoResult
        /\ transport_calls = Len(answers)
        /\ slept.count = Len(answers) - 1
        /\ sleep_between_requests_ms = attempt_ms

\* C14 witness: after a known-duration ban, the next attempt got a 200 and
\* then failed while the body was read
C14_Witness ==
    /\ pc = "panicked"
    /\ answers = <<"BanKnown", "TransportError">>
    /\ response.status = 200
    /\ transport_calls = 2
    /\ sleep_between_requests_ms = start_ms + SLEEP_BETWEEN_REQUESTS_STEP_MS

\* C16: when compile_uri fails in request, the call has returned that error:
\* no transport call was made, nothing was slept, nothing was answered, and
\* the backoff cell is as it was at the start of the call.
C16_CompileFailureReturned ==
    compiled.tag = "Err" =>
        /\ pc = "returned"
        /\ result = [tag |-> "Err", err |-> compiled.kind]
        /\ transport_calls = 0
        /\ slept.count = 0
        /\ answers = <<>>
        /\ sent = NoRequest
        /\ sleep_between_requests_ms = start_ms

\* C16 witness: a call for a descriptor with a required param that was never
\* set returned the missing-param error without a transport call
C16_Witness ==
    /\ pc = "returned"
    /\ rest_api_method = UnsetParamMethod
    /\ compiled = UriErr("MissingParam", KeyA)
    /\ result = [tag |-> "Err", err |-> "MissingParam"]
    /\ transport_calls = 0

\* C17: every request handed to the transport carries the identifying header
\* and, when the descriptor has a configure_request hook, has had the hook
\* applied.
C17_HookApplied ==
    transport_calls > 0 =>
        /\ sent.user_agent
        /\ rest_api_method.configure_request => sent.configured

\* C18: after a known-duration ban of n seconds the executor sleeps exactly
\* n + 1 seconds, for every n of the u32 range: the call does not panic on the
\* ban, and the time slept is n + 1 without wrapping.
C18_SleepsOneMore ==
    (answers # <<>> /\ Last(answers) = "BanKnown"
        /\ pc \in {"ban_sleep", "returned", "panicked"}) =>
        /\ pc = "ban_sleep"
        /\ validated.tag = "Banned" /\ validated.seconds.some
        /\ ~U32IsMax(validated.seconds.val)
        /\ slept.last = U32WrappingAddOne(validated.seconds.val)

(***************************************************************************)
(* SpecLive: Spec with the scheduling request relies on: tokio completes a *)
(* sleep and resumes the task (main.rs:280), and the transport completes   *)
(* each awaited future with a value or an error (main.rs:264, 270), so a   *)
(* call does not stay for ever at a position inside request.  At each of   *)
(* these positions an action of Next is enabled and every one of them      *)
(* leaves the position; the fairness is stated on the position, which      *)
(* keeps ENABLED free of the string operators.                             *)
(***************************************************************************)
InsideRequest ==
    {"req_compile", "req_send", "await_response", "await_body", "req_transform",
     "ban_sleep"}

Positions == InsideRequest \cup {"idle", "returned", "panicked"}

\* the call at position p moves on
Resumed(p) == pc = p /\ pc' \in Positions \ {p}

Fairness == \A p \in InsideRequest : WF_pc(Resumed(p))

SpecLive == Init /\ [][Next]_vars /\ Fairness

\* C15: whenever an attempt of a call was answered with a known-duration ban,
\* however many bans came before it in the call, the executor goes on to make
\* the next attempt of the same descriptor; and whenever an attempt was
\* answered with anything else, the call reaches a terminal state.
C15_BanThenNewAttempt ==
    /\ (pc = "req_transform" /\ Last(answers) = "BanKnown")
          ~> (pc = "await_response" /\ transport_calls = Len(answers) + 1)
    /\ (pc = "req_transform" /\ Last(answers) # "BanKnown")
          ~> (pc \in {"returned", "panicked"})

(***************************************************************************)
(* The key-addressed setters (rest.rs:221-261).  Each finds the first      *)
(* entry with the key (iter_mut().find), refuses it when it has a value    *)
(* and fills it otherwise.  [items, tag, err].                             *)
(***************************************************************************)
\* iter().find(|e| e.key == key): the index of the first entry, 0 for None
Find(items, key) ==
    LET at == {i \in 1..Len(items) : items[i].key = key}
    IN  IF at = {} THEN 0 ELSE CHOOSE i \in at : \A j \in at : i <= j

SetValue_overwrites(items, key, value) ==
    LET i == Find(items, key)
    IN  IF i = 0 THEN [items |-> items, tag |-> "Err", err |-> "not_found"]
        ELSE [items |-> [items EXCEPT ![i].value = Some(value)],
              tag |-> "Ok", err |-> ""]

SetValue(items, key, value) ==
    LET i == Find(items, key)
    IN  IF i = 0 THEN [items |-> items, tag |-> "Err", err |-> "not_found"]
        ELSE IF items[i].value.some
             THEN [items |-> items, tag |-> "Err", err |-> "already_set"]
             ELSE [items |-> [items EXCEPT ![i].value = Some(value)],
                   tag |-> "Ok", err |-> ""]

\* the keys and the values the setter calls are made with, and the entries
\* of the descriptors they are made on
SetterKeys == {KeyA, KeyB, KeyId}
SetterValues == {<<"8">>, <<"9">>}
SetterParamEntries ==
    {required(KeyA), prevalue(KeyA, <<"1">>), optional(KeyB)}
SetterRouteEntries ==
    {[key |-> KeyId, value |-> None], [key |-> KeyId, value |-> Some(<<"4", "2">>)]}

SetCall(fn, key, r) == [fn |-> fn, key |-> key, tag |-> r.tag, err |-> r.err]

WasSet(fn, key, r) == IF r.tag = "Ok" THEN was_set \cup {<<fn, key>>} ELSE was_set

(***************************************************************************)
(* SpecSetters: any sequence of setter calls on every enumerated           *)
(* descriptor.                                                             *)
(***************************************************************************)
InitSetters ==
    /\ pc = "setters"
    /\ \E np \in 0..MaxEntries :
       \E nq \in 0..(MaxEntries - np) :
       \E nr \in 0..(MaxEntries - np - nq) :
       \E params \in [1..np -> SetterParamEntries] :
       \E query_params \in [1..nq -> SetterParamEntries] :
       \E route_params \in [1..nr -> SetterRouteEntries] :
          rest_api_method =
              Method(BASE_URL, "Get", <<"/", "x", "/", "{", "i", "d", "}">>,
                     params, query_params, route_params, "CgAllCoins")
    /\ IdleUri /\ IdleSetters /\ IdleValidate /\ IdleRequest /\ IdleBuild
    /\ IdleBuilder /\ IdleSerialize /\ IdleMain

\* rest.rs:221-231
SetParamValue ==
    /\ pc = "setters"
    /\ \E key \in SetterKeys, value \in SetterValues :
          LET r == SetValue(rest_api_method.params, key, value)
          IN  /\ rest_api_method' = [rest_api_method EXCEPT !.params = r.items]
              /\ set_call' = SetCall("set_param_value", key, r)
              /\ was_set' = WasSet("set_param_value", key, r)
    /\ UNCHANGED <<pc, compiled, response, validated, requestVars, envVars,
                   buildVars, mainVars>>

\* rest.rs:232-246
SetQueryParamValue ==
    /\ pc = "setters"
    /\ \E key \in SetterKeys, value \in SetterValues :
          LET r == SetValue(rest_api_method.query_params, key, value)
          IN  /\ rest_api_method' = [rest_api_method EXCEPT !.query_params = r.items]
              /\ set_call' = SetCall("set_query_param_value", key, r)
              /\ was_set' = WasSet("set_query_param_value", key, r)
    /\ UNCHANGED <<pc, compiled, response, validated, requestVars, envVars,
                   buildVars, mainVars>>

\* rest.rs:247-261
SetRouteParamValue ==
    /\ pc = "setters"
    /\ \E key \in SetterKeys, value \in SetterValues :
          LET r == SetValue(rest_api_method.route_params, key, value)
          IN  /\ rest_api_method' = [rest_api_method EXCEPT !.route_params = r.items]
              /\ set_call' = SetCall("set_route_param_value", key, r)
              /\ was_set' = WasSet("set_route_param_value", key, r)
    /\ UNCHANGED <<pc, compiled, response, validated, requestVars, envVars,
                   buildVars, mainVars>>

NextSetters == SetParamValue \/ SetQueryParamValue \/ SetRouteParamValue

SpecSetters == InitSetters /\ [][NextSetters]_vars

\* the collection a setter addresses
ItemsOf(m, fn) ==
    CASE fn = "set_param_value" -> m.params
      [] fn = "set_query_param_value" -> m.query_params
      [] OTHER -> m.route_params

\* an entry that has a value keeps it, and no entry is added, removed or renamed
KeepsValues(before, after) ==
    /\ Len(after) = Len(before)
    /\ \A i \in 1..Len(before) :
          /\ after[i].key = before[i].key
          /\ before[i].value.some => after[i] = before[i]

\* C10: every setter call fails with the not-found error when no entry has
\* the key and with the already-set error when the (first) entry with the key
\* holds a value, pre-valued entries included; a failed call leaves the whole
\* descriptor unchanged; no call clears or replaces a value that is present;
\* and a call on a key that was set with success before fails.
C10_WriteOnce ==
    [][ LET c == set_call'
            old == ItemsOf(rest_api_method, c.fn)
            at == {i \in 1..Len(old) : old[i].key = c.key}
        IN  /\ at = {} => (c.tag = "Err" /\ c.err = "not_found")
            /\ (at # {} /\ old[MinOf(at)].value.some) =>
                  (c.tag = "Err" /\ c.err = "already_set")
            /\ c.tag = "Err" => rest_api_method' = rest_api_method
            /\ KeepsValues(rest_api_method.params, rest_api_method'.params)
            /\ KeepsValues(rest_api_method.query_params, rest_api_method'.query_params)
            /\ KeepsValues(rest_api_method.route_params, rest_api_method'.route_params)
            /\ <<c.fn, c.key>> \in was_set => c.tag = "Err"
      ]_vars

\* C10 witness: a key was set with success, a later set of it failed as
\* already set, and the entry still holds the first value
C10_Witness ==
    /\ pc = "setters"
    /\ set_call = [fn |-> "set_param_value", key |-> KeyB,
                   tag |-> "Err", err |-> "already_set"]
    /\ <<"set_param_value", KeyB>> \in was_set
    /\ rest_api_method.params = <<[key |-> KeyB, value |-> Some(<<"8">>),
                                   is_required |-> FALSE]>>

(***************************************************************************)
(* Serialize for RestApiMethodParamBunch (rest.rs:85-107) and              *)
(* convert_params_into_json_string (rest.rs:262-264).  serialize returns   *)
(* [tag |-> "Ok", fields] (the <<key, value>> pairs handed to the          *)
(* serializer, in order) or [tag |-> "Err", key] (Error::custom naming the *)
(* key); serde_json::to_string writes the fields as a JSON object;         *)
(* convert returns [tag |-> "Ok", text] or [tag |-> "Panic"], the unwrap.  *)
(***************************************************************************)
SerOk(fields) == [tag |-> "Ok", fields |-> fields, key |-> <<>>]
SerErr(key) == [tag |-> "Err", fields |-> <<>>, key |-> key]

RECURSIVE FilterLoop(_, _, _)
\* rest.rs:90-100 from the i-th entry on
FilterLoop(items, i, filtered) ==
    IF i > Len(items) THEN SerOk(filtered)
    ELSE LET param == items[i]
         IN  IF param.value.some
             THEN FilterLoop(items, i + 1, Append(filtered, <<param.key, param.value.val>>))
             ELSE IF param.is_required THEN SerErr(param.key)
             ELSE FilterLoop(items, i + 1, filtered)

serialize(items) == FilterLoop(items, 1, <<>>)

\* serde_json's string writer: the quote and the backslash are escaped
JsonEscapeChar(c) ==
    CASE c = "\"" -> <<"\\", "\"">>
      [] c = "\\" -> <<"\\", "\\">>
      [] OTHER -> <<c>>

JsonString(t) ==
    <<"\"">> \o Flatten([i \in 1..Len(t) |-> JsonEscapeChar(t[i])]) \o <<"\"">>

RECURSIVE JsonFields(_)
JsonFields(fields) ==
    IF fields = <<>> THEN <<>>
    ELSE JsonString(fields[1][1]) \o <<":">> \o JsonString(fields[1][2])
         \o (IF Len(fields) = 1 THEN <<>> ELSE <<",">> \o JsonFields(Tail(fields)))

\* serde_json::to_string of a struct with these fields
JsonObject(fields) == <<"{">> \o JsonFields(fields) \o <<"}">>

\* rest.rs:263: Ok(serde_json::to_string(&self.params).unwrap())
convert_params_into_json_string(m) ==
    LET r == serialize(m.params)
    IN  IF r.tag = "Ok" THEN [tag |-> "Ok", text |-> JsonObject(r.fields)]
        ELSE [tag |-> "Panic", text |-> <<>>]

(***************************************************************************)
(* SpecSerialize: the params set of every enumerated descriptor converted. *)
(***************************************************************************)
InitSerialize ==
    /\ pc = "convert"
    /\ \E np \in 0..MaxEntries :
       \E params \in [1..np -> ParamEntries] :
          rest_api_method =
              Method(BASE_URL, "Post", <<"/", "x">>, params, <<>>, <<>>, "CgAllCoins")
    /\ IdleUri /\ IdleSetters /\ IdleValidate /\ IdleRequest /\ IdleBuild
    /\ IdleBuilder /\ IdleSerialize /\ IdleMain

ConvertParams ==
    /\ pc = "convert"
    /\ json' = [serialized |-> serialize(rest_api_method.params),
                converted |-> convert_params_into_json_string(rest_api_method)]
    /\ pc' = "converted"
    /\ UNCHANGED <<rest_api_method, compiled, setVars, response, validated, requestVars,
                   envVars, builder, builder_calls, built, mainVars>>

NextSerialize == ConvertParams

SpecSerialize == InitSerialize /\ [][NextSerialize]_vars

\* the pairs a params set is expected to emit
PairsOf(items) ==
    LET vb == ValueBearing(items)
    IN  [i \in 1..Len(vb) |-> <<vb[i].key, vb[i].value.val>>]

\* C11: serializing a params set emits exactly its value-bearing entries, in
\* order, leaving out every optional entry without a value, when no required
\* entry lacks a value; otherwise it fails with the error naming the first
\* required entry without a value, and convert_params_into_json_string hands
\* that failure to its caller as an error value.
C11_SerializeParams ==
    pc = "converted" =>
        LET items == rest_api_method.params
            missing == UnsetRequired(items)
        IN  /\ missing = {} =>
                /\ json.serialized = SerOk(PairsOf(items))
                /\ json.converted = [tag |-> "Ok", text |-> JsonObject(PairsOf(items))]
            /\ missing # {} =>
                /\ json.serialized = SerErr(items[MinOf(missing)].key)
                /\ json.converted.tag = "Err"

(***************************************************************************)
(* SpecBuilder: any sequence of builder mutators on a new builder, then    *)
(* build.                                                                  *)
(***************************************************************************)
BuilderUrls == {<<"/", "x", "/", "{", "i", "d", "}">>}

Entries(b) == Len(b.params) + Len(b.query_params) + Len(b.route_params)

InitBuilder ==
    /\ pc = "building"
    /\ rest_api_method = NoMethod
    /\ IdleUri /\ IdleSetters /\ IdleValidate /\ IdleRequest /\ IdleBuild
    /\ IdleBuilder /\ IdleSerialize /\ IdleMain

\* a mutator call: the builder after it, and its name in the history
Mutate(name, b) ==
    /\ pc = "building"
    /\ builder' = b
    /\ builder_calls' = builder_calls \cup {name}
    /\ UNCHANGED <<pc, rest_api_method, compiled, setVars, response, validated,
                   requestVars, envVars, built, json, mainVars>>

SetBaseUrl == Mutate("set_base_url", set_base_url(builder, BASE_URL))

SetMethod == \E method \in RequestMethod : Mutate("set_method", set_method(builder, method))

SetUrl == \E url \in BuilderUrls : Mutate("set_url", set_url(builder, url))

AddRouteParam ==
    /\ Entries(builder) < MaxEntries
    /\ \E param \in SetterRouteEntries :
          Mutate("add_route_param", add_route_param(builder, param))

AddParam ==
    /\ Entries(builder) < MaxEntries
    /\ \E param \in SetterParamEntries : Mutate("add_param", add_param(builder, param))

AddQueryParam ==
    /\ Entries(builder) < MaxEntries
    /\ \E param \in SetterParamEntries :
          Mutate("add_query_param", add_query_param(builder, param))

SetTransformResponse ==
    \E transform \in ResponseTypes :
        Mutate("set_transform_response", set_transform_response(builder, transform))

SetConfigureRequest == Mutate("set_configure_request", set_configure_request(builder))

\* rest.rs:194-215: build reads the builder and returns a descriptor or panics
Build ==
    /\ pc = "building"
    /\ built' = build(builder)
    /\ rest_api_method' = built'.method
    /\ pc' = "built"
    /\ UNCHANGED <<compiled, setVars, response, validated, requestVars, envVars,
                   builder, builder_calls, json, mainVars>>

NextBuilder ==
    \/ SetBaseUrl
    \/ SetMethod
    \/ SetUrl
    \/ AddRouteParam
    \/ AddParam
    \/ AddQueryParam
    \/ SetTransformResponse
    \/ SetConfigureRequest
    \/ Build

SpecBuilder == InitBuilder /\ [][NextBuilder]_vars

\* the three mutators build insists on
Mandatory == {"set_base_url", "set_url", "set_transform_response"}

\* C12: whatever mutators were called, build returns a descriptor exactly
\* when set_base_url, set_url and set_transform_response were all called, and
\* panics (returning nothing, defaulting nothing) otherwise; the descriptor
\* holds what the mutators stored, and its verb is Get unless set_method was
\* called.
C12_BuildGate ==
    pc = "built" =>
        /\ Mandatory \subseteq builder_calls =>
              /\ built.tag = "Ok"
              /\ built.method.base_url = builder.base_url.val
              /\ built.method.url = builder.url.val
              /\ built.method.transform_response = builder.transform_response.val
              /\ built.method.method = builder.method
        /\ ~(Mandatory \subseteq builder_calls) =>
              /\ built.tag = "Panic"
              /\ built.method = NoMethod
        /\ (built.tag = "Ok" /\ "set_method" \notin builder_calls) =>
              built.method.method = "Get"

\* C12 witness: base_url and url were set and params added, but
\* set_transform_response was never called, and build panicked
C12_Witness ==
    /\ pc = "built"
    /\ {"set_base_url", "set_url", "add_param"} \subseteq builder_calls
    /\ "set_transform_response" \notin builder_calls
    /\ built = BuildPanic("RestApiMethodBuilder transform_response was not set")

UniqueKeys(items) ==
    \A i, j \in 1..Len(items) : items[i].key = items[j].key => i = j

\* C20: after any sequence of add_param and add_query_param calls, the
\* descriptor that build returns has no two params entries and no two
\* query_params entries with the same key (an add of a key that is already
\* there having been rejected).
C20_UniqueKeys ==
    (pc = "built" /\ built.tag = "Ok") =>
        /\ UniqueKeys(built.method.params)
        /\ UniqueKeys(built.method.query_params)

(***************************************************************************)
(* main (main.rs:54-150) with fetch_coins and fetch_rates (main.rs:205-251)*)
(* around `request`.  The coins are known by their number: the coin at     *)
(* index n has the id "c" followed by n in decimal, and the ids of a chunk *)
(* coins[start..end] are represented by its first and its last id.  The    *)
(* rates written into the coins (main.rs:125-136) are not represented.     *)
(***************************************************************************)
\* main.rs:152-172
build_all_coins_rest_api_method_builder_template ==
    set_transform_response(
        add_param(
            set_url(set_base_url(new, BASE_URL),
                    <<"/", "a", "p", "i", "/", "v", "3", "/", "c", "o", "i", "n", "s", "/", "l", "i", "s", "t">>),
            prevalue(<<"i", "n", "c", "l", "u", "d", "e", "_", "p", "l", "a", "t", "f", "o", "r", "m">>,
                     <<"t", "r", "u", "e">>)),
        "CgAllCoins")

\* main.rs:174-203
build_coin_rates_rest_api_method_builder_template ==
    set_transform_response(
        add_param(add_param(add_param(add_param(
            set_url(set_base_url(new, BASE_URL),
                    <<"/", "a", "p", "i", "/", "v", "3", "/", "s", "i", "m", "p", "l", "e", "/", "p", "r", "i", "c", "e">>),
            prevalue(<<"v", "s", "_", "c", "u", "r", "r", "e", "n", "c", "i", "e", "s">>, <<"u", "s", "d">>)),
            prevalue(<<"p", "r", "e", "c", "i", "s", "i", "o", "n">>, <<"1", "8">>)),
            prevalue(<<"i", "n", "c", "l", "u", "d", "e", "_", "l", "a", "s", "t", "_", "u", "p", "d", "a", "t", "e", "d", "_", "a", "t">>,
                     <<"t", "r", "u", "e">>)),
            prevalue(<<"i", "n", "c", "l", "u", "d", "e", "_", "m", "a", "r", "k", "e", "t", "_", "c", "a", "p">>,
                     <<"t", "r", "u", "e">>)),
        "CgRates")

DigitChar(d) == <<"0", "1", "2", "3", "4", "5", "6", "7", "8", "9">>[d + 1]

RECURSIVE Decimal(_)
\* usize to_string
Decimal(n) == IF n < 10 THEN <<DigitChar(n)>> ELSE Decimal(n \div 10) \o <<DigitChar(n % 10)>>

CoinId(n) == <<"c">> \o Decimal(n)

\* usize::div_ceil
div_ceil(a, b) == (a + b - 1) \div b

\* main.rs:87-94: ids.join(",") of the i-th chunk (fetch_rates joins, main.rs:233)
ChunkIds(i, iterations, coins_len) ==
    LET start == i * RATES_TOKENS_PER_REQUEST
        end == IF i = iterations - 1 THEN coins_len
               ELSE start + RATES_TOKENS_PER_REQUEST
    IN  IF end - start = 1 THEN CoinId(start)
        ELSE CoinId(start) \o <<",">> \o CoinId(end - 1)

\* main.rs:231-233: the template is cloned and the clone gets the ids param;
\* [template, builder] are the template and the clone after it
fetch_rates_builder_in_place(template, ids) ==
    LET b == add_param(template, prevalue(KeyIds, ids))
    IN  [template |-> b, builder |-> b]

fetch_rates_builder(template, ids) ==
    [template |-> template,
     builder |-> add_param(clone(template), prevalue(KeyIds, ids))]

\* the lengths of the coin list a decodable answer may hold
CoinsLens == {0, 1, 501, 10001}

\* the highest index main prints (main.rs:141-145)
ExampleIndex == 10000

MainAt(p) == main_loop.pc = p

\* request has returned to fetch_coins or fetch_rates: its locals are gone
Returned ==
    /\ pc = "returned"
    /\ pc' = "idle"
    /\ compiled' = NoCompiled
    /\ response' = NoResponse
    /\ validated' = NoValidated
    /\ sent' = NoRequest
    /\ result' = NoResult
    /\ answers' = <<>>
    /\ transport_calls' = 0
    /\ slept' = NoSleep
    /\ start_ms' = sleep_between_requests_ms
    /\ attempt_ms' = sleep_between_requests_ms
    /\ UNCHANGED <<rest_api_method, sleep_between_requests_ms, calls, ban_events,
                   setVars, envVars, buildVars, templates>>

(***************************************************************************)
(* SpecMain: the polling loop, its calls of `request` answered by the      *)
(* transport as in Spec.                                                   *)
(***************************************************************************)
InitMain ==
    /\ pc = "idle"
    /\ rest_api_method = NoMethod
    /\ templates = [all_coins |-> build_all_coins_rest_api_method_builder_template,
                    coin_rates |-> build_coin_rates_rest_api_method_builder_template]
    /\ main_loop = [NoMain EXCEPT !.pc = "loop"]
    /\ IdleUri /\ IdleSetters /\ IdleValidate /\ IdleRequest
    /\ IdleBuilder /\ IdleSerialize
    /\ overflow_checks \in BOOLEAN
    /\ log_info \in BOOLEAN

\* main.rs:65-70, 210-212: fetch_coins builds a clone of the template and
\* calls request, with no sleep before it
MainFetchCoins ==
    /\ MainAt("loop")
    /\ main_loop.cycle < main_loop.cycles_before + MaxCycles
    /\ LET b == build(clone(templates.all_coins))
       IN  /\ b.tag = "Ok"
           /\ Begin(b.method)
    /\ main_loop' = [main_loop EXCEPT !.pc = "fetch_coins", !.cycle = @ + 1]
    /\ UNCHANGED templates

\* main.rs:72-83, 213-222: the coins, or the error with which main returns
FetchCoinsReturns ==
    /\ MainAt("fetch_coins")
    /\ Returned
    /\ IF result.tag = "Ok" /\ rest_api_method.transform_response = "CgAllCoins"
       THEN \E coins_len \in CoinsLens :
               LET iterations == div_ceil(coins_len, RATES_TOKENS_PER_REQUEST)
               IN  main_loop' = [main_loop EXCEPT
                                    !.coins_len = coins_len,
                                    !.iterations = iterations,
                                    !.i = 0,
                                    !.pc = IF iterations = 0 THEN "examples"
                                           ELSE "sleep_between_requests"]
       ELSE main_loop' = [main_loop EXCEPT !.pc = "exited"]

\* main.rs:97-101: the sleep of the backoff value before a fetch_rates call
MainSleepBetweenRequests ==
    /\ MainAt("sleep_between_requests")
    /\ main_loop' = [main_loop EXCEPT !.pc = "call_fetch_rates",
                                      !.slept_ms = Some(sleep_between_requests_ms)]
    /\ UNCHANGED <<pc, rest_api_method, compiled, setVars, response, validated,
                   requestVars, envVars, buildVars, templates>>

\* main.rs:102-108, 231-238: fetch_rates specializes a clone of the template
\* with the ids of the chunk, builds it and calls request
MainFetchRates ==
    /\ MainAt("call_fetch_rates")
    /\ LET ids == ChunkIds(main_loop.i, main_loop.iterations, main_loop.coins_len)
           r == fetch_rates_builder(templates.coin_rates, ids)
           b == build(r.builder)
       IN  /\ b.tag = "Ok"
           /\ templates' = [templates EXCEPT !.coin_rates = r.template]
           /\ Begin(b.method)
    /\ main_loop' = [main_loop EXCEPT !.pc = "fetch_rates"]

\* main.rs:110-137, 241-250: the rates, or the error with which main returns
FetchRatesReturns ==
    /\ MainAt("fetch_rates")
    /\ Returned
    /\ IF result.tag = "Ok" /\ rest_api_method.transform_response = "CgRates"
       THEN main_loop' = [main_loop EXCEPT
                             !.i = @ + 1,
                             !.pc = IF main_loop.i + 1 < main_loop.iterations
                                    THEN "sleep_between_requests" ELSE "examples"]
       ELSE main_loop' = [main_loop EXCEPT !.pc = "exited"]

\* main.rs:140-145: coins[0], [10], [100], [1000] and [10000] are printed; an
\* index out of bounds panics
MainExamples ==
    /\ MainAt("examples")
    /\ IF main_loop.coins_len > ExampleIndex
       THEN main_loop' = [main_loop EXCEPT !.pc = "cooldown"] /\ UNCHANGED pc
       ELSE main_loop' = [main_loop EXCEPT !.pc = "panicked"] /\ pc' = "panicked"
    /\ UNCHANGED <<rest_api_method, compiled, setVars, response, validated, requestVars,
                   envVars, buildVars, templates>>

MainCooldown_resets_backoff ==
    /\ MainAt("cooldown")
    /\ main_loop' = [main_loop EXCEPT !.pc = "loop",
                                      !.slept_ms = Some(COOLDOWN_SEC * 1000)]
    /\ sleep_between_requests_ms' = SLEEP_BETWEEN_REQUESTS_INITIAL_MS
    /\ UNCHANGED <<pc, rest_api_method, compiled, setVars, response, validated,
                   start_ms, attempt_ms, answers, result, transport_calls, slept, calls,
                   sent, ban_events, envVars, buildVars, templates>>

\* main.rs:147-149: the cooldown sleep, then the next cycle
MainCooldown ==
    /\ MainAt("cooldown")
    /\ main_loop' = [main_loop EXCEPT !.pc = "loop",
                                      !.slept_ms = Some(COOLDOWN_SEC * 1000)]
    /\ UNCHANGED <<pc, rest_api_method, compiled, setVars, response, validated,
                   requestVars, envVars, buildVars, templates>>

NextMain ==
    \/ MainFetchCoins
    \/ FetchCoinsReturns
    \/ MainSleepBetweenRequests
    \/ MainFetchRates
    \/ FetchRatesReturns
    \/ MainExamples
    \/ MainCooldown
    \/ RequestCompile
    \/ RequestSend
    \/ TransportResponds
    \/ TransportFails
    \/ BodyRead
    \/ BodyFails
    \/ RequestTransform
    \/ BanSleepDone

SpecMain == InitMain /\ [][NextMain]_vars

\* C13: no step of the executor or of the polling loop lowers the backoff
\* cell; the only step that changes it is the handling of a known-duration
\* ban, and that step adds exactly SLEEP_BETWEEN_REQUESTS_STEP_MS.
C13_BackoffMonotonic ==
    [][ LET known == /\ pc = "req_transform"
                     /\ validated'.tag = "Banned"
                     /\ validated'.seconds.some
        IN  /\ sleep_between_requests_ms' >= sleep_between_requests_ms
            /\ known =>
                  sleep_between_requests_ms'
                      = sleep_between_requests_ms + SLEEP_BETWEEN_REQUESTS_STEP_MS
            /\ ~known => sleep_between_requests_ms' = sleep_between_requests_ms
      ]_vars

\* C13 witness: in the second polling cycle, after the cooldown, the backoff
\* cell still holds the two steps that bans of the first cycle added
C13_Witness ==
    /\ MainAt("fetch_rates")
    /\ main_loop.cycle = 2
    /\ main_loop.slept_ms
          = Some(SLEEP_BETWEEN_REQUESTS_INITIAL_MS + 2 * SLEEP_BETWEEN_REQUESTS_STEP_MS)
    /\ ban_events = 2
    /\ pc = "await_response"
    /\ answers = <<>>

\* C19: the two templates always hold what they were declared with, whatever
\* was cloned, specialized and built from them; the descriptor of a fetch_coins
\* call holds the template's params, and the descriptor of a fetch_rates call
\* holds the template's params followed by exactly one ids param with the ids
\* of that call.
C19_TemplatesUnchanged ==
    /\ templates.all_coins = build_all_coins_rest_api_method_builder_template
    /\ templates.coin_rates = build_coin_rates_rest_api_method_builder_template
    /\ Len(templates.all_coins.params) = 1
    /\ Len(templates.coin_rates.params) = 4
    /\ MainAt("fetch_coins") => rest_api_method.params = templates.all_coins.params
    /\ MainAt("fetch_rates") =>
          /\ rest_api_method.params
                = templates.coin_rates.params
                  \o <<prevalue(KeyIds, ChunkIds(main_loop.i, main_loop.iterations,
                                                 main_loop.coins_len))>>
          /\ Cardinality({n \in 1..Len(rest_api_method.params) :
                             rest_api_method.params[n].key = KeyIds}) = 1

\* C19 witness: the second fetch_rates call of a cycle runs with the ids of
\* the second chunk alone as its fifth param
C19_Witness ==
    /\ MainAt("fetch_rates")
    /\ main_loop.i = 1
    /\ main_loop.coins_len = 501
    /\ Len(rest_api_method.params) = 5
    /\ rest_api_method.params[5] = prevalue(KeyIds, <<"c", "5", "0", "0">>)
    /\ pc = "await_response"

(***************************************************************************)
(* SpecMainLater: the polling loop from the top of a later cycle.  Every   *)
(* known-duration ban adds SLEEP_BETWEEN_REQUESTS_STEP_MS to the backoff   *)
(* cell and nothing resets it (main.rs:63, 277), so after enough bans the  *)
(* cell reaches the fixed cooldown of main.rs:148.  The state below is the *)
(* one main is in after EarlierCycles cycles over a list of 10001 coins in *)
(* which the transport answered BansCoveredByCooldown known-duration bans. *)
(***************************************************************************)
\* the most bans after which the cooldown is still as long as the backoff
BansCoveredByCooldown ==
    (COOLDOWN_SEC * 1000 - SLEEP_BETWEEN_REQUESTS_INITIAL_MS)
        \div SLEEP_BETWEEN_REQUESTS_STEP_MS

EarlierCycles == 2

\* one fetch_coins call and one fetch_rates call per chunk, in each cycle
EarlierCalls == EarlierCycles * (1 + div_ceil(ExampleIndex + 1, RATES_TOKENS_PER_REQUEST))

InitMainLater ==
    /\ pc = "idle"
    /\ rest_api_method = NoMethod
    /\ templates = [all_coins |-> build_all_coins_rest_api_method_builder_template,
                    coin_rates |-> build_coin_rates_rest_api_method_builder_template]
    /\ main_loop = [NoMain EXCEPT !.pc = "loop",
                                  !.cycle = EarlierCycles,
                                  !.cycles_before = EarlierCycles,
                                  !.bans_before = BansCoveredByCooldown,
                                  !.slept_ms = Some(COOLDOWN_SEC * 1000)]
    /\ sleep_between_requests_ms
          = SLEEP_BETWEEN_REQUESTS_INITIAL_MS
            + BansCoveredByCooldown * SLEEP_BETWEEN_REQUESTS_STEP_MS
    /\ start_ms = sleep_between_requests_ms
    /\ attempt_ms = sleep_between_requests_ms
    /\ ban_events = BansCoveredByCooldown
    /\ calls = EarlierCalls
    /\ answers = <<>>
    /\ result = NoResult
    /\ transport_calls = 0
    /\ slept = NoSleep
    /\ sent = NoRequest
    /\ IdleUri /\ IdleSetters /\ IdleValidate
    /\ IdleBuilder /\ IdleSerialize
    /\ overflow_checks \in BOOLEAN
    /\ log_info \in BOOLEAN

SpecMainLater == InitMainLater /\ [][NextMain]_vars

\* C21: once a ban has raised the backoff cell, every call of request made by
\* fetch_coins or by fetch_rates, in this and in later polling cycles, is
\* preceded by a sleep of main that is at least as long as the value the
\* backoff cell holds when the call is entered.
C21_SleepCoversBackoff ==
    /\ MainAt("fetch_coins") \/ MainAt("fetch_rates")
    /\ start_ms > SLEEP_BETWEEN_REQUESTS_INITIAL_MS
    => /\ main_loop.slept_ms.some
       /\ main_loop.slept_ms.val >= start_ms

\* C22: the calls of request are made one at a time (a call is entered only
\* when none is in flight, and only a step of the call in flight changes the
\* backoff cell), and in every state the backoff cell holds
\* SLEEP_BETWEEN_REQUESTS_INITIAL_MS plus SLEEP_BETWEEN_REQUESTS_STEP_MS for
\* each known-duration ban answered since the process started.
C22_BackoffCountsBans ==
    /\ [](sleep_between_requests_ms
             = SLEEP_BETWEEN_REQUESTS_INITIAL_MS
               + SLEEP_BETWEEN_REQUESTS_STEP_MS * ban_events)
    /\ [][ /\ calls' # calls =>
                /\ calls' = calls + 1
                /\ pc \notin InsideRequest
                /\ pc' \in InsideRequest
           /\ sleep_between_requests_ms' # sleep_between_requests_ms =>
                /\ pc \in InsideRequest
                /\ calls' = calls
      ]_vars

\* C22 witness: the third ban is answered to the fetch_coins call of the
\* second cycle, the first two were answered in the first cycle, and the cell
\* holds three steps
C22_Witness ==
    /\ MainAt("fetch_coins")
    /\ main_loop.cycle = 2
    /\ main_loop.bans_before = 0
    /\ pc = "ban_sleep"
    /\ KnownBans(answers) = 1
    /\ ban_events = 3
    /\ sleep_between_requests_ms
          = SLEEP_BETWEEN_REQUESTS_INITIAL_MS + 3 * SLEEP_BETWEEN_REQUESTS_STEP_MS

====
